---------------------------- MODULE Spec2Model ----------------------------
(***************************************************************************)
(* A model of package nslog (src/log_handler.go): the LogHandler of        *)
(* "log/slog" that renders one text line per record.                       *)
(*                                                                         *)
(* Strings of the program are TLA+ strings, built with \o as the code      *)
(* builds them with + and strings.Join.  Values of environment variables   *)
(* are tuples of characters, because strings.EqualFold looks inside them.  *)
(* Slices are (array, len, cap) triples over an explicit heap of backing   *)
(* arrays, because clone/append decide whether two handlers share memory.  *)
(***************************************************************************)
EXTENDS Integers, Sequences, FiniteSets, TLC

VARIABLES
    inOpts,     \* the *LogHandlerOptions argument of NewLogHandler ("nil" or a struct)
    env,        \* the process environment: one value per GO_NSLOG_* variable
    handlers,   \* the LogHandler objects, in order of allocation; handlers[1] is the root
    attrArr,    \* heap: backing arrays of []slog.Attr
    groupArr,   \* heap: backing arrays of []string
    mutexes,    \* the sync.Mutex objects: 0 when unlocked, else the goroutine holding it
    sink,       \* what the io.Writer has accepted, chunk by chunk
    vals,       \* current fmt.Sprint form of the objects that slog.Any values point to
    procs,      \* the goroutines, each making one log call
    path,       \* history: how each handler was derived (parent, attrs, groups along its path)
    acquired    \* history: the goroutines in the order in which they locked a mutex

vars == <<inOpts, env, handlers, attrArr, groupArr, mutexes, sink, vals, procs, path,
          acquired>>

(***************************************************************************)
(* Bounds of the model.                                                    *)
(***************************************************************************)
MaxHandlers == 5        \* handlers allocated in one behaviour (root included)
MaxScope == 4           \* the same, where a goroutine logs on the handlers
MaxValueHandlers == 2   \* the same, where attribute values change under the handlers
MaxLevelHandlers == 2   \* the same, where the minimum level and the record's level vary
MaxRenderHandlers == 2  \* the same, where the options and the record's fields vary
MaxConcHandlers == 2    \* the same, where goroutines log concurrently
WriteParts == 2         \* pieces in which the writer takes the bytes of one line
MaxEnvSet == 2          \* environment variables set at once

(***************************************************************************)
(* slog levels (log/slog: LevelDebug = -4, LevelInfo = 0, ...).            *)
(***************************************************************************)
LevelDebug == 0 - 4
LevelInfo == 0
LevelWarn == 4
LevelError == 8

DEFAULT_LEVEL == LevelInfo
DEFAULT_TIME_LAYOUT == "2006/01/02 15:04:05"
DEFAULT_SOURCE_LEVEL == LevelWarn

Levels == {LevelDebug, LevelInfo, LevelWarn, LevelError}

(***************************************************************************)
(* Small library: strings.Join, strconv.Itoa, fmt.Sprintf("%0nX"),         *)
(* strings.EqualFold.                                                      *)
(***************************************************************************)
RECURSIVE Join(_, _)
Join(elems, sep) ==
    IF elems = <<>> THEN ""
    ELSE IF Len(elems) = 1 THEN elems[1]
    ELSE elems[1] \o sep \o Join(Tail(elems), sep)

Digit(d) == <<"0", "1", "2", "3", "4", "5", "6", "7", "8", "9",
              "A", "B", "C", "D", "E", "F">>[d + 1]

RECURSIVE Digits(_, _)
Digits(n, base) ==
    IF n < base THEN Digit(n) ELSE Digits(n \div base, base) \o Digit(n % base)

Itoa(n) == Digits(n, 10)

RECURSIVE PadZero(_, _)
PadZero(s, width) == IF Len(s) >= width THEN s ELSE PadZero("0" \o s, width)

SprintfHex(width, n) == PadZero(Digits(n, 16), width)

UpperLetters ==
    <<"A", "B", "C", "D", "E", "F", "G", "H", "I", "J", "K", "L", "M",
      "N", "O", "P", "Q", "R", "S", "T", "U", "V", "W", "X", "Y", "Z">>
LowerLetters ==
    <<"a", "b", "c", "d", "e", "f", "g", "h", "i", "j", "k", "l", "m",
      "n", "o", "p", "q", "r", "s", "t", "u", "v", "w", "x", "y", "z">>

LowerOf ==
    [c \in {UpperLetters[i] : i \in 1..Len(UpperLetters)} |->
        LowerLetters[CHOOSE i \in 1..Len(UpperLetters) : UpperLetters[i] = c]]
UpperOf ==
    [c \in {LowerLetters[i] : i \in 1..Len(LowerLetters)} |->
        UpperLetters[CHOOSE i \in 1..Len(LowerLetters) : LowerLetters[i] = c]]

\* simple case folding of an ASCII character
Fold(c) == IF c \in DOMAIN LowerOf THEN LowerOf[c] ELSE c

EqualFold(s, t) ==
    /\ Len(s) = Len(t)
    /\ \A i \in 1..Len(s) : Fold(s[i]) = Fold(t[i])

\* the string an environment value stands for
RECURSIVE Str(_)
Str(cs) == IF cs = <<>> THEN "" ELSE cs[1] \o Str(Tail(cs))

(***************************************************************************)
(* NewLogHandler: defaults, then the environment.                          *)
(***************************************************************************)
\* a nil pointer or interface is the empty tuple, a non-nil one the tuple of what it
\* holds: a slog.Leveler l is <<n>> with l.Level() = n
Nil == <<>>
Leveler(n) == <<n>>
LevelOf(leveler) == leveler[1]

ZeroOptions ==
    [Level |-> Nil, AddColor |-> FALSE, TimeLayout |-> "", AddPID |-> FALSE,
     AddGoroutineID |-> FALSE, AddSourceLevel |-> Nil, SourceFilePath |-> FALSE]

SetDefaults(options) ==
    LET o0 == IF options = Nil THEN ZeroOptions ELSE options[1]
        o1 == IF o0.Level = Nil THEN [o0 EXCEPT !.Level = Leveler(DEFAULT_LEVEL)] ELSE o0
        o2 == IF o1.TimeLayout = "" THEN [o1 EXCEPT !.TimeLayout = DEFAULT_TIME_LAYOUT] ELSE o1
    IN  IF o2.AddSourceLevel = Nil
        THEN [o2 EXCEPT !.AddSourceLevel = Leveler(DEFAULT_SOURCE_LEVEL)] ELSE o2

\* a switch that takes the level names in any letter case
EnvLevelAnyCase(v, prior) ==
    CASE EqualFold(v, <<"E", "R", "R", "O", "R">>) -> Leveler(LevelError)
      [] EqualFold(v, <<"W", "A", "R", "N">>) -> Leveler(LevelWarn)
      [] EqualFold(v, <<"I", "N", "F", "O">>) -> Leveler(LevelInfo)
      [] EqualFold(v, <<"D", "E", "B", "U", "G">>) -> Leveler(LevelDebug)
      [] OTHER -> prior

\* switch os.Getenv(...) { case "ERROR": ... default: }
EnvLevel(v, prior) ==
    CASE v = <<"E", "R", "R", "O", "R">> -> Leveler(LevelError)
      [] v = <<"W", "A", "R", "N">> -> Leveler(LevelWarn)
      [] v = <<"I", "N", "F", "O">> -> Leveler(LevelInfo)
      [] v = <<"D", "E", "B", "U", "G">> -> Leveler(LevelDebug)
      [] OTHER -> prior

\* if EqualFold(v, "false") || v == "0" {..} else if EqualFold(v, "true") || v == "1" {..}
EnvBool(v, prior) ==
    IF EqualFold(v, <<"f", "a", "l", "s", "e">>) \/ v = <<"0">> THEN FALSE
    ELSE IF EqualFold(v, <<"t", "r", "u", "e">>) \/ v = <<"1">> THEN TRUE
    ELSE prior

EnvOverride(o, e) ==
    LET o1 == [o  EXCEPT !.Level = EnvLevel(e.GO_NSLOG_LEVEL, o.Level)]
        o2 == [o1 EXCEPT !.AddColor = EnvBool(e.GO_NSLOG_ADD_COLOR, o1.AddColor)]
        o3 == IF e.GO_NSLOG_TIME_LAYOUT # <<>>
              THEN [o2 EXCEPT !.TimeLayout = Str(e.GO_NSLOG_TIME_LAYOUT)] ELSE o2
        o4 == [o3 EXCEPT !.AddPID = EnvBool(e.GO_NSLOG_ADD_PID, o3.AddPID)]
        o5 == [o4 EXCEPT !.AddGoroutineID =
                            EnvBool(e.GO_NSLOG_ADD_GOROUTINEID, o4.AddGoroutineID)]
        o6 == [o5 EXCEPT !.AddSourceLevel =
                            EnvLevel(e.GO_NSLOG_ADD_SOURCE_LEVEL, o5.AddSourceLevel)]
    IN  [o6 EXCEPT !.SourceFilePath =
                            EnvBool(e.GO_NSLOG_SOURCE_FILE_PATH, o6.SourceFilePath)]

ResolveOptions(options, e) == EnvOverride(SetDefaults(options), e)


(***************************************************************************)
(* Slices over a heap of backing arrays.  A slice is (arr, len, cap); arr  *)
(* is an index into the heap, 0 for the nil slice.  The cells of a new     *)
(* array beyond the elements appended hold the zero value of the type.     *)
(***************************************************************************)
NilSlice == [arr |-> 0, len |-> 0, cap |-> 0]

\* the elements a slice shows: s[0:len(s)]
Elems(heap, s) == IF s.arr = 0 THEN <<>> ELSE SubSeq(heap[s.arr], 1, s.len)

\* slices.Clip(s) = s[:len(s):len(s)]
ClipKeepCap(s) == s

Clip(s) == [s EXCEPT !.cap = s.len]

\* runtime.growslice: the capacity of the array that append allocates
GrowCap(oldCap, newLen) ==
    IF newLen > 2 * oldCap THEN newLen ELSE 2 * oldCap

\* append(s, elems...): in place when the capacity allows, else into a new array.
\* The result is the new heap and the slice returned.
AppendSlice(heap, s, elems, zero) ==
    LET n == Len(elems)
        newLen == s.len + n
    IN  IF n = 0 THEN [heap |-> heap, s |-> s]
        ELSE IF newLen <= s.cap
        THEN [heap |-> [heap EXCEPT ![s.arr] =
                          [i \in 1..s.cap |->
                              IF i > s.len /\ i <= newLen THEN elems[i - s.len] ELSE @[i]]],
              s |-> [s EXCEPT !.len = newLen]]
        ELSE LET c == GrowCap(s.cap, newLen)
                 arr == [i \in 1..c |->
                            IF i <= s.len THEN heap[s.arr][i]
                            ELSE IF i <= newLen THEN elems[i - s.len]
                            ELSE zero]
             IN  [heap |-> Append(heap, arr),
                  s |-> [arr |-> Len(heap) + 1, len |-> newLen, cap |-> c]]

(***************************************************************************)
(* slog.Value: a string or integer carries its text; a value of KindAny    *)
(* points to an object, and Value.String() formats the object as it is at  *)
(* the time of the call (fmt.Sprint).                                      *)
(***************************************************************************)
StringValue(s) == [kind |-> "String", s |-> s, ref |-> 0]
AnyValue(ref) == [kind |-> "Any", s |-> "", ref |-> ref]

\* a Value.String() that keeps the form the object had first
ValueStringAtFirst(v, store) == IF v.kind = "String" THEN v.s ELSE "v1"

ValueString(v, store) == IF v.kind = "String" THEN v.s ELSE store[v.ref]

Attr(k, v) == [Key |-> k, Value |-> v]

\* the zero values of slog.Attr and string
ZeroAttr == Attr("", AnyValue(0))
ZeroString == ""

(***************************************************************************)
(* The handler objects.                                                    *)
(***************************************************************************)
\* NewLogHandler's result: &LogHandler{options: *options, mutex: &sync.Mutex{}, writer: writer}
NewHandler(options, e) ==
    [options |-> ResolveOptions(options, e), attrs |-> NilSlice, groups |-> NilSlice,
     mutex |-> 1, writer |-> 1]

NewLogHandler ==
    /\ handlers = <<>>
    /\ handlers' = <<NewHandler(inOpts, env)>>
    /\ path' = <<[parent |-> 0, attrs |-> <<>>, groups |-> <<>>, shown |-> <<>>]>>
    /\ UNCHANGED <<inOpts, env, attrArr, groupArr, mutexes, sink, vals, procs, acquired>>

cloneOwnMutex(handler) ==
    [options |-> handler.options, attrs |-> Clip(handler.attrs),
     groups |-> Clip(handler.groups), writer |-> handler.writer,
     mutex |-> Len(handlers) + 1]

clone(handler) ==
    [options |-> handler.options, attrs |-> Clip(handler.attrs),
     groups |-> Clip(handler.groups), writer |-> handler.writer,
     mutex |-> handler.mutex]

\* history of a derivation: the parent's path, extended
Derived(h, attrs, groups) ==
    Append(path, [parent |-> h,
                  attrs |-> path[h].attrs \o attrs,
                  groups |-> path[h].groups \o groups,
                  shown |-> path[h].shown \o
                            [i \in 1..Len(attrs) |-> ValueString(attrs[i].Value, vals)]])

WithAttrs(h, attrs, limit) ==
    /\ h \in 1..Len(handlers)
    /\ Len(handlers) < limit
    /\ LET new_handler == clone(handlers[h])
           r == AppendSlice(attrArr, new_handler.attrs, attrs, ZeroAttr)
       IN  /\ handlers' = Append(handlers, [new_handler EXCEPT !.attrs = r.s])
           /\ attrArr' = r.heap
    /\ path' = Derived(h, attrs, <<>>)
    /\ UNCHANGED <<inOpts, env, groupArr, mutexes, sink, vals, procs, acquired>>

WithGroup(h, name, limit) ==
    /\ h \in 1..Len(handlers)
    /\ Len(handlers) < limit
    /\ LET new_handler == clone(handlers[h])
           r == AppendSlice(groupArr, new_handler.groups, <<name>>, ZeroString)
       IN  /\ handlers' = Append(handlers, [new_handler EXCEPT !.groups = r.s])
           /\ groupArr' = r.heap
    /\ path' = Derived(h, <<>>, <<name>>)
    /\ UNCHANGED <<inOpts, env, attrArr, mutexes, sink, vals, procs, acquired>>

\* what a handler holds
HandlerAttrs(h) == Elems(attrArr, handlers[h].attrs)
HandlerGroups(h) == Elems(groupArr, handlers[h].groups)

(***************************************************************************)
(* Handle, first part (lines 161-274): the fields of the line.             *)
(***************************************************************************)
\* record.Time.Format(layout), for the one instant the records here carry
FormatTime(layout) ==
    CASE layout = "2006/01/02 15:04:05" -> "2024/10/31 11:22:33"
      [] layout = "15:04" -> "11:22"
      [] OTHER -> layout

\* os.Getpid()
Getpid == 4660

\* the id that runtime.Stack prints for goroutine p
GoroutineID(p) == p + 17

\* github.com/fatih/color: the text between the escape sequence of the colour and the reset
ESC == "\\x1b"
ColorString(code, text) == ESC \o "[" \o code \o "m" \o text \o ESC \o "[0m"

LevelTag(level, addColor) ==
    CASE level = LevelError -> IF addColor THEN ColorString("91", "ERROR") ELSE "ERROR"
      [] level = LevelWarn -> IF addColor THEN ColorString("93", "WARN.") ELSE "WARN."
      [] level = LevelInfo -> IF addColor THEN ColorString("92", "INFO.") ELSE "INFO."
      [] level = LevelDebug -> IF addColor THEN ColorString("96", "DEBUG") ELSE "DEBUG"
      [] OTHER -> "UNSET"

\* attribute.Key + "=" + attribute.Value.String()
KeyValue(attribute, store) == attribute.Key \o "=" \o ValueString(attribute.Value, store)

KeyValues(attrs, store) == [i \in 1..Len(attrs) |-> KeyValue(attrs[i], store)]

\* lines 212-231: withGroup, withAttributes, with
WithClauseAlwaysColon(groups, attrs, store) ==
    LET withAttributes == KeyValues(attrs, store)
        with0 == IF Len(groups) > 0 THEN Join(groups, ".") ELSE ""
        with1 == IF Len(withAttributes) > 0
                 THEN with0 \o "[" \o Join(withAttributes, " ") \o "]" ELSE with0
    IN  with1 \o ":"

WithClause(groups, attrs, store) ==
    LET withGroup == IF Len(groups) > 0 THEN Join(groups, ".") ELSE ""
        withAttributes == KeyValues(attrs, store)
        with1 == IF Len(withAttributes) > 0
                 THEN withGroup \o "[" \o Join(withAttributes, " ") \o "]" ELSE withGroup
    IN  IF with1 # "" THEN with1 \o ":" ELSE with1

\* the frame of a record's program counter: runtime.CallersFrames(...).Next()
Frame == [File |-> <<"home", "app", "main.go">>, Line |-> 42]

FilePath(file) == "/" \o Join(file, "/")
FilepathBase(file) == file[Len(file)]

\* lines 243-254
Source(options, record) ==
    IF record.Level >= LevelOf(options.AddSourceLevel)
    THEN IF record.PC # 0
         THEN IF options.SourceFilePath
              THEN "(" \o FilePath(Frame.File) \o ":" \o Itoa(Frame.Line) \o ")"
              ELSE "(" \o FilepathBase(Frame.File) \o ":" \o Itoa(Frame.Line) \o ")"
         ELSE ""
    ELSE ""

\* the local variables of Handle at line 255, for goroutine p and handler h
Fields(h, record, p, store) ==
    LET options == handlers[h].options
    IN  [time |-> FormatTime(options.TimeLayout),
         pid |-> IF options.AddPID THEN Getpid ELSE 0,
         goroutineID |-> IF options.AddGoroutineID THEN GoroutineID(p) ELSE 0,
         level |-> LevelTag(record.Level, options.AddColor),
         with |-> WithClause(HandlerGroups(h), HandlerAttrs(h), store),
         message |-> record.Message,
         attributes |-> KeyValues(record.Attrs, store),
         source |-> Source(options, record)]

\* lines 256-274: log_strings and log_bytes
LogBytes(f) ==
    LET s1 == <<f.time>>
        s2 == IF f.pid > 0 THEN Append(s1, SprintfHex(4, f.pid)) ELSE s1
        s3 == IF f.goroutineID > 0 THEN Append(s2, SprintfHex(8, f.goroutineID)) ELSE s2
        s4 == Append(s3, f.level)
        s5 == IF f.with # "" THEN Append(s4, f.with) ELSE s4
        s6 == Append(s5, f.message)
        s7 == IF Len(f.attributes) > 0 THEN Append(s6, Join(f.attributes, " ")) ELSE s6
        s8 == IF f.source # "" THEN Append(s7, f.source) ELSE s7
    IN  Join(s8, " ") \o "\n"

(***************************************************************************)
(* The goroutines.  Each makes one log call on one handler and goes        *)
(* through Handle: format, Lock, Write (piece by piece), Unlock and return.*)
(***************************************************************************)
NoRecord == [Level |-> 0, Message |-> "", Attrs |-> <<>>, PC |-> 0]
NoFields ==
    [time |-> "", pid |-> 0, goroutineID |-> 0, level |-> "", with |-> "", message |-> "",
     attributes |-> <<>>, source |-> ""]

Idle ==
    [pc |-> "idle", h |-> 0, record |-> NoRecord, direct |-> FALSE, f |-> NoFields,
     line |-> "", seen |-> <<>>, writes |-> 0, sent |-> 0, err |-> FALSE, ret |-> Nil]

\* a comparison that leaves out the minimum level itself
EnabledAbove(handler, level) == level > LevelOf(handler.options.Level)

Enabled(handler, level) == level >= LevelOf(handler.options.Level)

\* slog.Logger.log: Handle is called only when the handler reports the level enabled
Log(p, h, record) ==
    /\ procs[p].pc = "idle"
    /\ h \in 1..Len(handlers)
    /\ procs' = [procs EXCEPT ![p] =
                    [@ EXCEPT !.pc = IF Enabled(handlers[h], record.Level)
                                     THEN "format" ELSE "skipped",
                              !.h = h, !.record = record]]
    /\ UNCHANGED <<inOpts, env, handlers, attrArr, groupArr, mutexes, sink, vals, path, acquired>>

\* a caller of Handle that did not ask Enabled
HandleDirect(p, h, record) ==
    /\ procs[p].pc = "idle"
    /\ h \in 1..Len(handlers)
    /\ procs' = [procs EXCEPT ![p] =
                    [@ EXCEPT !.pc = "format", !.h = h, !.record = record, !.direct = TRUE]]
    /\ UNCHANGED <<inOpts, env, handlers, attrArr, groupArr, mutexes, sink, vals, path, acquired>>

\* a Handle that would return at once for a level its handler reports disabled
HandleSkipsDisabled(handler, record) == ~Enabled(handler, record.Level)

\* Handle has no early return: it formats whatever record it is given
HandleSkips(handler, record) == FALSE

\* lines 161-274
HandleFormat(p) ==
    /\ procs[p].pc = "format"
    /\ LET f == Fields(procs[p].h, procs[p].record, p, vals)
       IN  procs' = [procs EXCEPT ![p] =
                        IF HandleSkips(handlers[procs[p].h], procs[p].record)
                        THEN [@ EXCEPT !.pc = "done"]
                        ELSE [@ EXCEPT !.pc = "lock", !.f = f, !.line = LogBytes(f),
                                       !.seen = vals]]
    /\ UNCHANGED <<inOpts, env, handlers, attrArr, groupArr, mutexes, sink, vals, path, acquired>>

\* line 276: handler.mutex.Lock() (277: the Unlock is deferred)
HandleLock(p) ==
    /\ procs[p].pc = "lock"
    /\ mutexes[handlers[procs[p].h].mutex] = 0
    /\ mutexes' = [mutexes EXCEPT ![handlers[procs[p].h].mutex] = p]
    /\ procs' = [procs EXCEPT ![p] = [@ EXCEPT !.pc = "locked"]]
    /\ acquired' = Append(acquired, p)
    /\ UNCHANGED <<inOpts, env, handlers, attrArr, groupArr, sink, vals, path>>

\* line 278: the call of handler.writer.Write(log_bytes)
HandleWrite(p) ==
    /\ procs[p].pc = "locked"
    /\ procs' = [procs EXCEPT ![p] = [@ EXCEPT !.pc = "writing", !.writes = @ + 1]]
    /\ UNCHANGED <<inOpts, env, handlers, attrArr, groupArr, mutexes, sink, vals, path, acquired>>

\* inside Write: the writer takes the next piece of the bytes
WritePiece(p) ==
    /\ procs[p].pc = "writing"
    /\ sink' = Append(sink, [p |-> p, k |-> procs[p].sent + 1])
    /\ procs' = [procs EXCEPT ![p] =
                    [@ EXCEPT !.sent = @ + 1,
                              !.pc = IF procs[p].sent + 1 = WriteParts
                                     THEN "written" ELSE "writing"]]
    /\ UNCHANGED <<inOpts, env, handlers, attrArr, groupArr, mutexes, vals, path, acquired>>

\* inside Write: the writer fails; what it took before stays in the sink
WriteError(p) ==
    /\ procs[p].pc = "writing"
    /\ procs' = [procs EXCEPT ![p] = [@ EXCEPT !.pc = "written", !.err = TRUE]]
    /\ UNCHANGED <<inOpts, env, handlers, attrArr, groupArr, mutexes, sink, vals, path, acquired>>

\* lines 277 and 279: return err, and the deferred handler.mutex.Unlock()
\* an Unlock written after the error check instead of deferred
UnlocksOnSuccess(p) == ~procs[p].err

\* a return that drops the error of Write
ReturnsNil(p) == Nil

\* the Unlock is deferred: it runs on every return
Unlocks(p) == TRUE

ReturnValue(p) == IF procs[p].err THEN <<"write error">> ELSE Nil

HandleReturn(p) ==
    /\ procs[p].pc = "written"
    /\ mutexes' = IF Unlocks(p)
                  THEN [mutexes EXCEPT ![handlers[procs[p].h].mutex] = 0] ELSE mutexes
    /\ procs' = [procs EXCEPT ![p] = [@ EXCEPT !.pc = "done", !.ret = ReturnValue(p)]]
    /\ UNCHANGED <<inOpts, env, handlers, attrArr, groupArr, sink, vals, path, acquired>>

\* the caller changes the object a slog.Any value points to
MutateValue(ref, form) ==
    /\ ref \in 1..Len(vals)
    /\ vals[ref] # form
    /\ vals' = [vals EXCEPT ![ref] = form]
    /\ UNCHANGED <<inOpts, env, handlers, attrArr, groupArr, mutexes, sink, procs, path, acquired>>

\* the bytes of the sink that came from goroutine p, and whether they are its whole line
Pieces(p) == SelectSeq(sink, LAMBDA c : c.p = p)
WroteLine(p) == Len(Pieces(p)) = WriteParts

(***************************************************************************)
(* Inputs.                                                                 *)
(***************************************************************************)
NoEnv ==
    [GO_NSLOG_LEVEL |-> <<>>, GO_NSLOG_ADD_COLOR |-> <<>>, GO_NSLOG_TIME_LAYOUT |-> <<>>,
     GO_NSLOG_ADD_PID |-> <<>>, GO_NSLOG_ADD_GOROUTINEID |-> <<>>,
     GO_NSLOG_ADD_SOURCE_LEVEL |-> <<>>, GO_NSLOG_SOURCE_FILE_PATH |-> <<>>]

\* the object a slog.Any value points to prints as one of these
ObjForms == {"v1", "v2"}

AttrPid0 == Attr("pid", StringValue("0"))
AttrPidDead == Attr("pid", StringValue("dead"))
AttrTidBeaf == Attr("tid", StringValue("beaf"))
AttrObj == Attr("obj", AnyValue(1))

\* the state before NewLogHandler, for the goroutines P
InitWith(O, E, P) ==
    /\ inOpts \in O
    /\ env \in E
    /\ handlers = <<>>
    /\ attrArr = <<>>
    /\ groupArr = <<>>
    /\ mutexes = [m \in 1..MaxHandlers + 1 |-> 0]
    /\ sink = <<>>
    /\ vals = <<"v1">>
    /\ procs = [p \in P |-> Idle]
    /\ path = <<>>
    /\ acquired = <<>>

(***************************************************************************)
(* SpecDerive: derivation chains only.                                     *)
(***************************************************************************)
DeriveBatches == {<<>>, <<AttrPid0>>, <<AttrTidBeaf>>, <<AttrPidDead, AttrTidBeaf>>}
DeriveGroups == {"", "Group1"}

InitDerive == InitWith({Nil}, {NoEnv}, {})

NextDerive ==
    \/ NewLogHandler
    \/ \E h \in 1..MaxHandlers, b \in DeriveBatches : WithAttrs(h, b, MaxHandlers)
    \/ \E h \in 1..MaxHandlers, g \in DeriveGroups : WithGroup(h, g, MaxHandlers)

SpecDerive == InitDerive /\ [][NextDerive]_vars

\* C2: every handler's attrs and groups are exactly the attributes and group names
\* added along its own derivation path from the root, in call order, whatever was
\* derived from its parent, its siblings or itself afterwards.
C2_DerivationsNeverAlterAHandler ==
    \A h \in 1..Len(handlers) :
        /\ HandlerAttrs(h) = path[h].attrs
        /\ HandlerGroups(h) = path[h].groups

\* two children of one parent, one of them extended further, each with its own content
C2_Witness ==
    \E a, b, c \in 1..Len(handlers) :
        /\ a # b
        /\ path[a].parent = path[b].parent
        /\ path[a].parent # 0
        /\ path[c].parent = a
        /\ HandlerAttrs(a) # HandlerAttrs(b)
        /\ HandlerAttrs(path[a].parent) # <<>>
        /\ Len(HandlerAttrs(c)) > Len(HandlerAttrs(a))

(***************************************************************************)
(* SpecScope: derivation chains, and one goroutine logging "message" at    *)
(* Info through slog.Logger on any of the handlers.                        *)
(***************************************************************************)
InfoMessage == [Level |-> LevelInfo, Message |-> "message", Attrs |-> <<>>, PC |-> 0]

ScopeBatches == {<<AttrPid0>>, <<AttrTidBeaf>>}
ScopeGroups == {"", "Group1", "Group2"}

InitScope == InitWith({Nil}, {NoEnv}, {1})

NextScope ==
    \/ NewLogHandler
    \/ \E h \in 1..MaxScope, b \in ScopeBatches : WithAttrs(h, b, MaxScope)
    \/ \E h \in 1..MaxScope, g \in ScopeGroups : WithGroup(h, g, MaxScope)
    \/ \E p \in DOMAIN procs, h \in 1..MaxScope : Log(p, h, InfoMessage)
    \/ \E p \in DOMAIN procs : HandleFormat(p)
    \/ \E p \in DOMAIN procs : HandleLock(p)
    \/ \E p \in DOMAIN procs : HandleWrite(p)
    \/ \E p \in DOMAIN procs : WritePiece(p)
    \/ \E p \in DOMAIN procs : HandleReturn(p)

SpecScope == InitScope /\ [][NextScope]_vars

\* goroutine p is past the formatting of its line
Formatted(p) == procs[p].pc \in {"lock", "locked", "writing", "written", "done"}

\* the key=value texts of attributes, with the values in the forms given
Shown(attrs, forms) == [i \in 1..Len(attrs) |-> attrs[i].Key \o "=" \o forms[i]]
\* the string forms of the attributes' values when the objects are as in store
FormsIn(attrs, store) ==
    [i \in 1..Len(attrs) |->
        IF attrs[i].Value.kind = "Any" THEN store[attrs[i].Value.ref] ELSE attrs[i].Value.s]

\* groups joined by '.', then [key=value ...] when there is an attribute
PrefixBody(groups, kvs) ==
    Join(groups, ".") \o (IF kvs # <<>> THEN "[" \o Join(kvs, " ") \o "]" ELSE "")

\* the prefix as the claim states it: ':' after it unless there is no group and no attribute
ClaimedPrefix(groups, kvs) ==
    IF groups = <<>> /\ kvs = <<>> THEN "" ELSE PrefixBody(groups, kvs) \o ":"

\* the prefix with ':' only after a non-empty text
NonEmptyPrefix(groups, kvs) ==
    IF PrefixBody(groups, kvs) = "" THEN "" ELSE PrefixBody(groups, kvs) \o ":"

\* the line of an Info "message" record under the default options, given its prefix
InfoLine(prefix) ==
    "2024/10/31 11:22:33 INFO. " \o (IF prefix = "" THEN "" ELSE prefix \o " ") \o "message\n"

\* C4 as stated: the prefix is the groups joined by '.', then the bracketed attributes
\* when there is one, then ':'; nothing at all with zero groups and zero attributes.
C4_PrefixAsClaimed ==
    \A p \in DOMAIN procs :
        Formatted(p) =>
            LET hp == path[procs[p].h]
                prefix == ClaimedPrefix(hp.groups, Shown(hp.attrs, hp.shown))
            IN  /\ procs[p].f.with = prefix
                /\ procs[p].line = InfoLine(prefix)

\* C4, amended: the prefix depends only on the group names in WithGroup order and the
\* attributes in WithAttrs order; it is the groups joined by '.', then the bracketed
\* attributes when there is one, and ':' follows only when that text is non-empty (no
\* prefix and no ':' with zero groups and zero attributes, and also with one group of
\* empty name and no attribute).
C4_PrefixFromGroupsAndAttrs ==
    \A p \in DOMAIN procs :
        Formatted(p) =>
            LET hp == path[procs[p].h]
                prefix == NonEmptyPrefix(hp.groups, Shown(hp.attrs, hp.shown))
            IN  /\ procs[p].f.with = prefix
                /\ procs[p].line = InfoLine(prefix)

\* a line is in the sink whose handler was derived as group, attribute, group
C4_Witness ==
    \E p \in DOMAIN procs :
        /\ WroteLine(p)
        /\ LET h3 == procs[p].h
               h2 == path[h3].parent
           IN  /\ h2 # 0
               /\ path[h2].parent # 0
               /\ Len(path[h3].groups) > Len(path[h2].groups)
               /\ Len(path[h2].attrs) > Len(path[path[h2].parent].attrs)
               /\ Len(path[path[h2].parent].groups) = 1
               /\ procs[p].f.with = "Group1.Group2[pid=0]:"

(***************************************************************************)
(* SpecValue: handlers whose attributes point to an object that the caller *)
(* changes, and two goroutines logging on them.                            *)
(***************************************************************************)
ValueBatches == {<<AttrObj>>, <<AttrPid0, AttrObj>>}

InitValue == InitWith({Nil}, {NoEnv}, {1, 2})

NextValue ==
    \/ NewLogHandler
    \/ \E h \in 1..MaxValueHandlers, b \in ValueBatches : WithAttrs(h, b, MaxValueHandlers)
    \/ \E form \in ObjForms : MutateValue(1, form)
    \/ \E p \in DOMAIN procs, h \in 1..MaxValueHandlers : Log(p, h, InfoMessage)
    \/ \E p \in DOMAIN procs : HandleFormat(p)
    \/ \E p \in DOMAIN procs : HandleLock(p)
    \/ \E p \in DOMAIN procs : HandleWrite(p)
    \/ \E p \in DOMAIN procs : WritePiece(p)
    \/ \E p \in DOMAIN procs : HandleReturn(p)

SpecValue == InitValue /\ [][NextValue]_vars

\* C7 as stated: the prefix of a line shows each attribute value in the string form it
\* had when WithAttrs was called, and two Handle calls on one handler show the same.
C7_ValuesAsAtWithAttrs ==
    /\ \A p \in DOMAIN procs :
          Formatted(p) =>
              LET hp == path[procs[p].h]
              IN  procs[p].f.with = NonEmptyPrefix(hp.groups, Shown(hp.attrs, hp.shown))
    /\ \A p, q \in DOMAIN procs :
          Formatted(p) /\ Formatted(q) /\ procs[p].h = procs[q].h
              => procs[p].f.with = procs[q].f.with

\* C7, amended: WithAttrs stores the values as given, and Handle renders them: the
\* prefix of a line shows each attribute value in the string form it has when that
\* Handle call formats the line, so a value that changed after WithAttrs is shown
\* changed.
C7_ValuesAsAtHandle ==
    \A p \in DOMAIN procs :
        Formatted(p) =>
            LET hp == path[procs[p].h]
                prefix == NonEmptyPrefix(hp.groups,
                                         Shown(hp.attrs, FormsIn(hp.attrs, procs[p].seen)))
            IN  /\ procs[p].f.with = prefix
                /\ procs[p].line = InfoLine(prefix)

\* a line is in the sink that shows a value in another form than it had at WithAttrs
C7_Witness ==
    \E p \in DOMAIN procs :
        /\ WroteLine(p)
        /\ path[procs[p].h].shown = <<"v1">>
        /\ procs[p].f.with = "[obj=v2]:"

(***************************************************************************)
(* SpecConfig: NewLogHandler on every options argument and environment of  *)
(* the sets below.                                                         *)
(***************************************************************************)
ConfigOptions ==
    {Nil} \cup
    {<<o>> : o \in
        [Level : {Nil, Leveler(LevelError)}, AddColor : BOOLEAN,
         TimeLayout : {"", "15:04"}, AddPID : BOOLEAN, AddGoroutineID : BOOLEAN,
         AddSourceLevel : {Nil, Leveler(LevelInfo)}, SourceFilePath : BOOLEAN]}

LevelWords ==
    {<<"E", "R", "R", "O", "R">>, <<"W", "A", "R", "N">>, <<"I", "N", "F", "O">>,
     <<"D", "E", "B", "U", "G">>, <<"d", "e", "b", "u", "g">>}

BoolWords ==
    {<<"t", "r", "u", "e">>, <<"T", "R", "U", "E">>, <<"1">>, <<"f", "a", "l", "s", "e">>,
     <<"F", "a", "l", "s", "e">>, <<"0">>, <<"y", "e", "s">>}

EnvWords(name) ==
    CASE name \in {"GO_NSLOG_LEVEL", "GO_NSLOG_ADD_SOURCE_LEVEL"} -> LevelWords
      [] name = "GO_NSLOG_TIME_LAYOUT" -> {<<"15:04">>}
      [] OTHER -> BoolWords

\* the environments with at most n of the variables set
RECURSIVE EnvsWith(_)
EnvsWith(n) ==
    IF n = 0 THEN {NoEnv}
    ELSE LET less == EnvsWith(n - 1)
         IN  less \cup UNION {{[e EXCEPT ![name] = w] : e \in less, w \in EnvWords(name)} :
                                  name \in DOMAIN NoEnv}

ConfigEnvs == EnvsWith(MaxEnvSet)

InitConfig == InitWith(ConfigOptions, ConfigEnvs, {})

NextConfig == NewLogHandler

SpecConfig == InitConfig /\ [][NextConfig]_vars

\* the words the claim names
ExactLevel(v) ==
    CASE v = <<"E", "R", "R", "O", "R">> -> Leveler(LevelError)
      [] v = <<"W", "A", "R", "N">> -> Leveler(LevelWarn)
      [] v = <<"I", "N", "F", "O">> -> Leveler(LevelInfo)
      [] v = <<"D", "E", "B", "U", "G">> -> Leveler(LevelDebug)
      [] OTHER -> Nil

\* v is the lower-case word in some letter case
InAnyCase(v, word) ==
    /\ Len(v) = Len(word)
    /\ \A i \in 1..Len(word) : v[i] \in {word[i], UpperOf[word[i]]}

ClaimedLevel(given, default, v) ==
    IF ExactLevel(v) # Nil THEN ExactLevel(v)
    ELSE IF given = Nil THEN Leveler(default) ELSE given

ClaimedBool(given, v) ==
    IF InAnyCase(v, <<"t", "r", "u", "e">>) \/ v = <<"1">> THEN TRUE
    ELSE IF InAnyCase(v, <<"f", "a", "l", "s", "e">>) \/ v = <<"0">> THEN FALSE
    ELSE given

ClaimedLayout(given, v) ==
    IF v # <<>> THEN Str(v)
    ELSE IF given = "" THEN DEFAULT_TIME_LAYOUT ELSE given

ClaimedOptions(options, e) ==
    LET given == IF options = Nil THEN ZeroOptions ELSE options[1]
    IN  [Level |-> ClaimedLevel(given.Level, LevelInfo, e.GO_NSLOG_LEVEL),
         AddColor |-> ClaimedBool(given.AddColor, e.GO_NSLOG_ADD_COLOR),
         TimeLayout |-> ClaimedLayout(given.TimeLayout, e.GO_NSLOG_TIME_LAYOUT),
         AddPID |-> ClaimedBool(given.AddPID, e.GO_NSLOG_ADD_PID),
         AddGoroutineID |-> ClaimedBool(given.AddGoroutineID, e.GO_NSLOG_ADD_GOROUTINEID),
         AddSourceLevel |-> ClaimedLevel(given.AddSourceLevel, LevelWarn,
                                         e.GO_NSLOG_ADD_SOURCE_LEVEL),
         SourceFilePath |-> ClaimedBool(given.SourceFilePath, e.GO_NSLOG_SOURCE_FILE_PATH)]

\* C9: each of the seven settings of the root handler is its default, replaced by the
\* caller's option when given, replaced by its environment variable when that is one of
\* the four level names exactly (levels), true/false in any letter case or 1/0
\* (booleans), non-empty (time layout); any other value, unset included, changes nothing.
C9_OptionsResolvedPerSetting ==
    handlers # <<>> => handlers[1].options = ClaimedOptions(inOpts, env)

\* a handler built with a level word in the wrong case (ignored) and TRUE for a boolean
C9_Witness ==
    /\ handlers # <<>>
    /\ inOpts # Nil
    /\ inOpts[1].Level = Leveler(LevelError)
    /\ env.GO_NSLOG_LEVEL = <<"d", "e", "b", "u", "g">>
    /\ env.GO_NSLOG_ADD_PID = <<"T", "R", "U", "E">>
    /\ ~inOpts[1].AddPID
    /\ handlers[1].options.Level = Leveler(LevelError)
    /\ handlers[1].options.AddPID

(***************************************************************************)
(* SpecLevel: every minimum level against every record level, through      *)
(* slog.Logger (Enabled, then Handle) and through Handle alone, with a     *)
(* writer that may fail.                                                   *)
(***************************************************************************)
LevelOptions ==
    {Nil} \cup
    {<<[ZeroOptions EXCEPT !.Level = l]>> :
        l \in {Nil} \cup {Leveler(n) : n \in Levels}}

LevelRecords == [Level : Levels, Message : {"message"}, Attrs : {<<>>}, PC : {0}]

InitLevel == InitWith(LevelOptions, {NoEnv}, {1})

NextLevel ==
    \/ NewLogHandler
    \/ \E h \in 1..MaxLevelHandlers : WithGroup(h, "Group1", MaxLevelHandlers)
    \/ \E p \in DOMAIN procs, h \in 1..MaxLevelHandlers, r \in LevelRecords : Log(p, h, r)
    \/ \E p \in DOMAIN procs, h \in 1..MaxLevelHandlers, r \in LevelRecords :
          HandleDirect(p, h, r)
    \/ \E p \in DOMAIN procs : HandleFormat(p)
    \/ \E p \in DOMAIN procs : HandleLock(p)
    \/ \E p \in DOMAIN procs : HandleWrite(p)
    \/ \E p \in DOMAIN procs : WritePiece(p)
    \/ \E p \in DOMAIN procs : WriteError(p)
    \/ \E p \in DOMAIN procs : HandleReturn(p)

SpecLevel == InitLevel /\ [][NextLevel]_vars

\* the minimum level the caller configured: Info when none was given
ConfiguredMin ==
    IF inOpts = Nil THEN LevelInfo
    ELSE IF inOpts[1].Level = Nil THEN LevelInfo
    ELSE inOpts[1].Level[1]

\* the call of goroutine p is over
Finished(p) == procs[p].pc \in {"skipped", "done"}

\* the tag the claim's documentation gives each level
PlainTag(level) ==
    CASE level = LevelError -> "ERROR" [] level = LevelWarn -> "WARN."
      [] level = LevelInfo -> "INFO." [] level = LevelDebug -> "DEBUG"

\* the line of a "message" record of the level on handler h, options otherwise default
LevelLine(level, h) ==
    "2024/10/31 11:22:33 " \o PlainTag(level)
        \o (IF path[h].groups = <<>> THEN "" ELSE " " \o Join(path[h].groups, ".") \o ":")
        \o " message\n"

\* C3: Enabled(level) is true exactly when level >= the configured minimum (Info when
\* unset), and of the events logged through the dispatcher, which calls Handle only for
\* enabled levels, exactly those at or above the minimum get their line into the sink
\* (when the writer takes it); the others reach neither Handle nor the sink.
C3_EnabledIffAtOrAboveMinimum ==
    /\ \A h \in 1..Len(handlers), l \in Levels :
          Enabled(handlers[h], l) <=> l >= ConfiguredMin
    /\ \A p \in DOMAIN procs :
          (~procs[p].direct /\ procs[p].pc # "idle") =>
              /\ procs[p].record.Level < ConfiguredMin =>
                    procs[p].pc = "skipped" /\ Pieces(p) = <<>>
              /\ procs[p].record.Level >= ConfiguredMin =>
                    /\ procs[p].pc # "skipped"
                    /\ (procs[p].pc = "done" /\ ~procs[p].err) =>
                          /\ WroteLine(p)
                          /\ procs[p].line = LevelLine(procs[p].record.Level, procs[p].h)

\* an event at the minimum level itself is in the sink, with the minimum set to Warn
C3_Witness ==
    \E p \in DOMAIN procs :
        /\ procs[p].pc = "done"
        /\ ~procs[p].direct
        /\ ConfiguredMin = LevelWarn
        /\ procs[p].record.Level = LevelWarn
        /\ WroteLine(p)
        /\ procs[p].line = "2024/10/31 11:22:33 WARN. message\n"

\* C5: a failure of Write is returned by Handle, Write is called once per event,
\* nothing is written for the event after the failure, a successful Write makes Handle
\* return nil, and Handle returns no other error.
C5_WriteErrorReturnedOnce ==
    \A p \in DOMAIN procs :
        /\ procs[p].writes <= 1
        /\ Len(Pieces(p)) = procs[p].sent
        /\ procs[p].err => procs[p].sent < WriteParts
        /\ procs[p].pc = "done" =>
              /\ procs[p].writes = 1
              /\ procs[p].err => procs[p].ret # Nil
              /\ ~procs[p].err => procs[p].ret = Nil /\ WroteLine(p)

\* a Handle call has returned the error of a Write that failed part way
C5_Witness ==
    \E p \in DOMAIN procs :
        /\ procs[p].pc = "done"
        /\ procs[p].ret # Nil
        /\ procs[p].writes = 1
        /\ Len(Pieces(p)) = 1

\* C6 as stated: a Handle call made without the Enabled check, for an event below the
\* minimum level, renders nothing and writes nothing.
C6_HandleHonoursMinLevel ==
    \A p \in DOMAIN procs :
        (procs[p].direct /\ procs[p].record.Level < ConfiguredMin) =>
            /\ Pieces(p) = <<>>
            /\ procs[p].pc \notin {"lock", "locked", "writing", "written"}

\* C6, amended: Handle does not look at the minimum level.  A Handle call made without
\* the Enabled check renders its event and writes the line whatever the level, also
\* below the minimum; only Enabled reports such a level as disabled.
C6_HandleWritesWhateverTheLevel ==
    /\ \A h \in 1..Len(handlers), l \in Levels :
          l < ConfiguredMin => ~Enabled(handlers[h], l)
    /\ \A p \in DOMAIN procs :
          (procs[p].direct /\ procs[p].pc = "done" /\ ~procs[p].err) =>
              /\ WroteLine(p)
              /\ procs[p].line = LevelLine(procs[p].record.Level, procs[p].h)

\* the line of a Debug event is in the sink although the minimum level is Error
C6_Witness ==
    \E p \in DOMAIN procs :
        /\ procs[p].direct
        /\ ConfiguredMin = LevelError
        /\ procs[p].record.Level = LevelDebug
        /\ ~Enabled(handlers[procs[p].h], LevelDebug)
        /\ WroteLine(p)
        /\ procs[p].line = "2024/10/31 11:22:33 DEBUG message\n"

(***************************************************************************)
(* SpecRender: records with and without message, attributes and program    *)
(* counter, under options that switch every optional field on and off.     *)
(***************************************************************************)
RenderOptions ==
    {<<o>> : o \in
        [Level : {Leveler(LevelDebug)}, AddColor : BOOLEAN, TimeLayout : {""},
         AddPID : BOOLEAN, AddGoroutineID : BOOLEAN,
         AddSourceLevel : {Nil, Leveler(LevelDebug)}, SourceFilePath : BOOLEAN]}

AttrKey1 == Attr("key1", StringValue("val1"))
AttrKey2 == Attr("key2", StringValue("val2"))

RenderRecords ==
    [Level : Levels \cup {2}, Message : {"", "log message"},
     Attrs : {<<>>, <<AttrKey1>>, <<AttrKey1, AttrKey2>>}, PC : {0, 1}]

InitRender == InitWith(RenderOptions, {NoEnv}, {1})

NextRender ==
    \/ NewLogHandler
    \/ \E h \in 1..MaxRenderHandlers : WithGroup(h, "Group1", MaxRenderHandlers)
    \/ \E h \in 1..MaxRenderHandlers : WithAttrs(h, <<AttrPid0>>, MaxRenderHandlers)
    \/ \E p \in DOMAIN procs, h \in 1..MaxRenderHandlers, r \in RenderRecords : Log(p, h, r)
    \/ \E p \in DOMAIN procs : HandleFormat(p)
    \/ \E p \in DOMAIN procs : HandleLock(p)
    \/ \E p \in DOMAIN procs : HandleWrite(p)
    \/ \E p \in DOMAIN procs : WritePiece(p)
    \/ \E p \in DOMAIN procs : HandleReturn(p)

SpecRender == InitRender /\ [][NextRender]_vars

\* the eight fields of a formatted line as texts, in the order of the claim; a field
\* that is absent for the event is the empty text
FieldTexts(f) ==
    <<f.time,
      IF f.pid > 0 THEN SprintfHex(4, f.pid) ELSE "",
      IF f.goroutineID > 0 THEN SprintfHex(8, f.goroutineID) ELSE "",
      f.level,
      f.with,
      f.message,
      Join(f.attributes, " "),
      f.source>>

NonEmpty(text) == text # ""

\* C8: every line is its non-empty fields in the order time, PID, goroutine id, level
\* tag, scope prefix, message, event attributes, source, one space between adjacent
\* ones and one line terminator at the end; an empty field, the message included,
\* leaves no separator behind.
C8_LineIsItsNonEmptyFields ==
    \A p \in DOMAIN procs :
        Formatted(p) =>
            procs[p].line = Join(SelectSeq(FieldTexts(procs[p].f), NonEmpty), " ") \o "\n"

\* the same, for the events whose message is not empty
C8_HoldsForNonEmptyMessages ==
    \A p \in DOMAIN procs :
        (Formatted(p) /\ procs[p].record.Message # "") =>
            procs[p].line = Join(SelectSeq(FieldTexts(procs[p].f), NonEmpty), " ") \o "\n"

(***************************************************************************)
(* SpecConc: two goroutines logging at once on handlers of one chain, with *)
(* a writer that takes a line piece by piece and may fail.  The scheduler  *)
(* runs every goroutine that can take a step, and Write returns.           *)
(***************************************************************************)
InitConc == InitWith({Nil}, {NoEnv}, {1, 2})

GoroutineStep(p) ==
    \/ HandleFormat(p)
    \/ HandleLock(p)
    \/ HandleWrite(p)
    \/ WritePiece(p)
    \/ WriteError(p)
    \/ HandleReturn(p)

NextConc ==
    \/ NewLogHandler
    \/ \E h \in 1..MaxConcHandlers : WithGroup(h, "Group1", MaxConcHandlers)
    \/ \E h \in 1..MaxConcHandlers : WithAttrs(h, <<AttrPid0>>, MaxConcHandlers)
    \/ \E p \in DOMAIN procs, h \in 1..MaxConcHandlers : Log(p, h, InfoMessage)
    \/ \E p \in DOMAIN procs : HandleFormat(p)
    \/ \E p \in DOMAIN procs : HandleLock(p)
    \/ \E p \in DOMAIN procs : HandleWrite(p)
    \/ \E p \in DOMAIN procs : WritePiece(p)
    \/ \E p \in DOMAIN procs : WriteError(p)
    \/ \E p \in DOMAIN procs : HandleReturn(p)

SpecConc ==
    /\ InitConc
    /\ [][NextConc]_vars
    /\ \A p \in {1, 2} : WF_vars(GoroutineStep(p))

\* the goroutines whose bytes are in the sink, in the order of their first byte
RECURSIVE Writers(_)
Writers(chunks) ==
    IF chunks = <<>> THEN <<>>
    ELSE LET rest == Writers(SubSeq(chunks, 1, Len(chunks) - 1))
             last == chunks[Len(chunks)].p
         IN  IF \E i \in 1..Len(rest) : rest[i] = last THEN rest ELSE Append(rest, last)

\* the goroutines of `order` that are in the set, in that order
Restrict(order, set) == SelectSeq(order, LAMBDA p : p \in set)

InsideWrite(p) == procs[p].pc = "writing"

\* C1: whatever handlers of the chain the goroutines log on, at most one of them is
\* inside Write (or holds a mutex) at a time, and the sink is the bytes of one call
\* after the other in lock-acquisition order: the pieces of a line are adjacent and in
\* order, never with bytes of another line between them, and every call whose Write
\* returned without error has its whole line there.
C1_OneWriterWholeLinesInLockOrder ==
    /\ Cardinality({p \in DOMAIN procs : InsideWrite(p)}) <= 1
    /\ Cardinality({p \in DOMAIN procs : procs[p].pc \in {"locked", "writing", "written"}}) <= 1
    /\ \A i \in 1..Len(sink) :
          sink[i].k = IF i > 1 /\ sink[i - 1].p = sink[i].p THEN sink[i - 1].k + 1 ELSE 1
    /\ \A i, j \in 1..Len(sink) : (i < j /\ sink[i].p = sink[j].p) =>
          \A m \in i..j : sink[m].p = sink[i].p
    /\ Writers(sink) = Restrict(acquired, {sink[i].p : i \in 1..Len(sink)})
    /\ \A p \in DOMAIN procs :
          (procs[p].pc \in {"written", "done"} /\ ~procs[p].err) => WroteLine(p)

\* two whole lines are in the sink, written through two different handlers, the second
\* goroutine having waited for the mutex while the first was inside Write
C1_Witness ==
    /\ \A p \in DOMAIN procs : WroteLine(p) /\ procs[p].pc = "done"
    /\ procs[1].h # procs[2].h
    /\ acquired = <<2, 1>>
    /\ sink = <<[p |-> 2, k |-> 1], [p |-> 2, k |-> 2], [p |-> 1, k |-> 1], [p |-> 1, k |-> 2]>>

\* goroutine p holds a mutex
HoldsMutex(p) == \E m \in DOMAIN mutexes : mutexes[m] = p

\* C10: a goroutine holds the mutex only between the end of formatting and its return
\* (not while formatting, not after Handle returned, with or without a write error),
\* and every call that waits for the mutex gets it and returns.
C10_LockOnlyAroundWriteAndReleased ==
    /\ [](\A p \in DOMAIN procs :
            HoldsMutex(p) <=> procs[p].pc \in {"locked", "writing", "written"})
    /\ [](\A p \in DOMAIN procs :
            procs[p].pc \in {"locked", "writing", "written"} => procs[p].line # "")
    /\ \A p \in {1, 2} : (procs[p].pc = "lock") ~> (procs[p].pc = "done")

\* a call has returned after the other call, which held the mutex first, failed to write
C10_Witness ==
    /\ procs[1].pc = "done" /\ procs[1].err
    /\ procs[2].pc = "done" /\ ~procs[2].err /\ WroteLine(2)
    /\ acquired = <<1, 2>>
    /\ \A m \in DOMAIN mutexes : mutexes[m] = 0

=============================================================================
